---- MODULE Spec2Model ----
(***************************************************************************)
(* Model of the MCP servers of arvore-mcp-servers: the read-only SQL       *)
(* adapters (PostgreSQL, MySQL), the tool handlers of every package and    *)
(* the start / shutdown lifecycle of every server.                         *)
(*                                                                         *)
(* A SQL statement is a sequence of lexemes: a word (a maximal run of \w   *)
(* characters), one whitespace character "ws", or a punctuation character. *)
(***************************************************************************)
EXTENDS Integers, Sequences, FiniteSets, TLC

\* ------------------------------------------------------------------ bounds
MaxLen == 3
MaxCalls == 1
MaxSignals == 2
MaxIds == 2

\* ---------------------------------------------------------------- lexemes
Words == {"select", "SELECT", "show", "explain", "describe", "desc",
          "with", "as", "x", "delete"}

Punct == {"(", ";"}

Lexemes == Words \cup Punct \cup {"ws"}

IsWord(l) == l \in Words \cup {"SHOW"}

\* String.prototype.toLowerCase on one lexeme
LowerWord(l) == CASE l = "SELECT" -> "select"
                  [] l = "SHOW" -> "show"
                  [] OTHER -> l

toLowerCase(q) == [i \in 1..Len(q) |-> LowerWord(q[i])]

\* String.prototype.trim: strips leading and trailing whitespace
RECURSIVE TrimLeft(_)
TrimLeft(q) == IF q # <<>> /\ Head(q) = "ws" THEN TrimLeft(Tail(q)) ELSE q

RECURSIVE TrimRight(_)
TrimRight(q) == IF q # <<>> /\ q[Len(q)] = "ws"
                THEN TrimRight(SubSeq(q, 1, Len(q) - 1)) ELSE q

trim(q) == TrimRight(TrimLeft(q))

\* index of the first lexeme at or after i that is not whitespace
RECURSIVE SkipWs(_, _)
SkipWs(t, i) == IF i <= Len(t) /\ t[i] = "ws" THEN SkipWs(t, i + 1) ELSE i

\* /^kw\s/
MatchKeyword(t, kw) == Len(t) >= 2 /\ t[1] = kw /\ t[2] = "ws"

\* /^with\s+\w+\s+as\s*\(/
MatchCte(t) ==
    /\ Len(t) >= 1 /\ t[1] = "with"
    /\ LET a == SkipWs(t, 2) IN
       /\ a > 2 /\ a <= Len(t) /\ IsWord(t[a])
       /\ LET b == SkipWs(t, a + 1) IN
          /\ b > a + 1 /\ b <= Len(t) /\ t[b] = "as"
          /\ LET c == SkipWs(t, b + 1) IN c <= Len(t) /\ t[c] = "("

SqlAdapters == {"postgresql", "mysql"}

\* a pattern list with /^select\s/ alone
readOnlyKeywords_selectOnly(adapter) == {"select"}

\* the keywords of readOnlyPatterns of each adapter
readOnlyKeywords(adapter) ==
    IF adapter = "postgresql" THEN {"select", "show", "explain"}
    ELSE {"select", "show", "describe", "desc", "explain"}

\* a pattern list that forgot the ^ anchor: the keyword matches anywhere
validateReadOnlyQuery_unanchored(adapter, query) ==
    LET t == toLowerCase(trim(query)) IN
    \E i \in 1..Len(t) : t[i] \in readOnlyKeywords(adapter)

\* isReadOnly of validateReadOnlyQuery: TRUE iff the query is let through
validateReadOnlyQuery(adapter, query) ==
    LET trimmedQuery == toLowerCase(trim(query)) IN
    \/ \E kw \in readOnlyKeywords(adapter) : MatchKeyword(trimmedQuery, kw)
    \/ adapter = "postgresql" /\ MatchCte(trimmedQuery)

\* ---------------------------------------------------------------- inputs
\* a word is a maximal run of \w characters: no two words are adjacent
WellFormed(q) == \A i \in 1..(Len(q) - 1) : ~(IsWord(q[i]) /\ IsWord(q[i + 1]))

ShortQueries ==
    {q \in UNION {[1..n -> Lexemes] : n \in 1..MaxLen} : WellFormed(q)}

CteQueries ==
    {<<"with", "ws", "x", "ws", "as">> \o sp \o <<"(">> \o body :
        sp \in {<<>>, <<"ws">>}, body \in {<<"select">>, <<"delete">>}}

\* the statements given to executeQuery when the adapter is driven directly
Queries == ShortQueries \cup CteQueries

\* ------------------------------------------------------------ tool tables
\* One row per tool method: backend = the method awaits a backend call,
\* catches = that call is inside the method's try/catch, json = the failure
\* payload is JSON.stringify of an object, idField = the request's identifying
\* field, echo = the request fields copied into the failure payload,
\* okKeys = the top-level keys of the success payload.
Tool(name, backend, catches, json, idField, echo, okKeys) ==
    [name |-> name, backend |-> backend, catches |-> catches, json |-> json,
     idField |-> idField, echo |-> echo, okKeys |-> okKeys]

PostgreSQLMCPTools ==
    { Tool("read_query", TRUE, TRUE, TRUE, "query", {"query"},
           {"query", "rowCount", "executionTime", "data"}),
      Tool("list_tables", TRUE, TRUE, TRUE, "schemaName", {},
           {"tableCount", "schema", "tables"}),
      Tool("describe_table", TRUE, TRUE, TRUE, "tableName", {"tableName"},
           {"tableName", "schema", "columnCount", "columns"}),
      Tool("list_databases", TRUE, TRUE, TRUE, "none", {},
           {"databaseCount", "databases"}),
      Tool("list_schemas", TRUE, TRUE, TRUE, "none", {},
           {"schemaCount", "schemas"}) }

MySQLMCPTools ==
    { Tool("read_query", TRUE, TRUE, TRUE, "query", {"query"},
           {"query", "rowCount", "executionTime", "data"}),
      Tool("list_tables", TRUE, TRUE, TRUE, "none", {},
           {"tableCount", "tables"}),
      Tool("describe_table", TRUE, TRUE, TRUE, "tableName", {"tableName"},
           {"tableName", "columnCount", "columns"}),
      Tool("show_databases", TRUE, TRUE, TRUE, "none", {},
           {"databaseCount", "databases"}) }

DatadogMCPTools ==
    { Tool("query_metrics", TRUE, FALSE, FALSE, "query", {},
           {"status", "series", "fromDate", "toDate", "query", "message"}),
      Tool("search_logs", TRUE, FALSE, FALSE, "query", {},
           {"data", "meta", "links"}),
      Tool("list_dashboards", TRUE, FALSE, FALSE, "none", {}, {}),
      Tool("list_monitors", TRUE, FALSE, FALSE, "none", {}, {}),
      Tool("get_service_map", FALSE, FALSE, FALSE, "env", {},
           {"message", "env", "timeRange"}),
      Tool("list_hosts", TRUE, FALSE, FALSE, "none", {},
           {"hostList", "totalMatching", "totalReturned"}),
      Tool("get_active_metrics", TRUE, TRUE, FALSE, "none", {},
           {"availableMetrics", "timeRange"}),
      Tool("search_traces", TRUE, FALSE, FALSE, "query", {},
           {"traces", "meta", "query_used", "time_range"}),
      Tool("list_services", TRUE, FALSE, FALSE, "none", {},
           {"services", "query_info"}),
      Tool("get_spans_metrics", TRUE, FALSE, FALSE, "service", {},
           {"metrics", "query_info"}) }

AWSSecretsManagerMCPTools ==
    { Tool("create_secret", TRUE, TRUE, TRUE, "name", {"name"},
           {"success", "arn", "name", "versionId", "message"}),
      Tool("update_secret", TRUE, TRUE, TRUE, "secretId", {"secretId"},
           {"success", "arn", "name", "versionId", "message"}),
      Tool("get_secret", TRUE, TRUE, TRUE, "secretId", {"secretId"},
           {"arn", "name", "secretValue", "versionId", "createdDate"}),
      Tool("list_secrets", TRUE, TRUE, TRUE, "none", {},
           {"count", "secrets"}),
      Tool("delete_secret", TRUE, TRUE, TRUE, "secretId", {"secretId"},
           {"success", "arn", "name", "deletionDate", "message"}),
      Tool("describe_secret", TRUE, TRUE, TRUE, "secretId", {"secretId"},
           {"arn", "name", "description", "rotationEnabled", "tags"}) }

NPMMCPTools ==
    { Tool("get_package_info", TRUE, TRUE, TRUE, "packageName",
           {"packageName"}, {"name", "version", "description", "distTags"}),
      Tool("get_package_downloads", TRUE, TRUE, TRUE, "packageName",
           {"packageName"}, {"package", "downloads", "period", "averagePerDay"}),
      Tool("search_packages", TRUE, TRUE, TRUE, "query", {"query"},
           {"query", "total", "returned", "searchTime", "packages"}) }

TempMailMCPTools ==
    { Tool("get_domains", FALSE, FALSE, FALSE, "none", {}, {"domains", "info"}),
      Tool("create_email_account", TRUE, TRUE, TRUE, "username", {"username"},
           {"success", "account", "info"}),
      Tool("list_email_accounts", TRUE, TRUE, TRUE, "none", {},
           {"accounts", "total", "page", "limit"}),
      Tool("delete_email_account", TRUE, TRUE, TRUE, "accountId",
           {"accountId"}, {"success", "message"}),
      Tool("get_inbox", TRUE, TRUE, TRUE, "accountId", {"accountId"},
           {"account", "messages", "total", "page", "limit"}),
      Tool("read_email", TRUE, TRUE, TRUE, "messageId", {"messageId"},
           {"id", "from", "fromName", "to", "subject", "text", "html",
            "hasAttachments", "size", "receivedAt"}),
      Tool("delete_email", TRUE, TRUE, TRUE, "messageId", {"messageId"},
           {"success", "message"}) }

Packages == {"postgresql", "mysql", "datadog", "aws", "npm", "tempmail"}

\* the tools setupTools registers in each server
setupTools(p) ==
    CASE p = "postgresql" -> PostgreSQLMCPTools
      [] p = "mysql" -> MySQLMCPTools
      [] p = "datadog" -> DatadogMCPTools
      [] p = "aws" -> AWSSecretsManagerMCPTools
      [] p = "npm" -> NPMMCPTools
      [] OTHER -> TempMailMCPTools

ToolNames(p) == {t.name : t \in setupTools(p)}

ToolOf(p, name) == CHOOSE t \in setupTools(p) : t.name = name

\* the registered callback runs <Schema>.parse(params) before the tool method
handlerParses(p, name) ==
    \/ p = "npm"
    \/ p = "tempmail" /\ name # "get_domains"

\* the prefix put before the message of the package's own error class
BackendTag(p) ==
    CASE p = "postgresql" -> "PostgreSQL Error:"
      [] p = "mysql" -> "MySQL Error:"
      [] p = "datadog" -> "Datadog Error:"
      [] p = "aws" -> "AWS Secrets Manager Error:"
      [] p = "npm" -> "NPM Error:"
      [] OTHER -> "TempMail Error:"

\* ---------------------------------------------------------------- results
\* data, rowCount and executionTime are the fields of a QueryResult; text is
\* the part of an envelope's JSON text that readQuery makes of them, and the
\* tableName describeTable copies from its params
NoText == [rowCount |-> 0, executionTime |-> "", data |-> <<>>, tableName |-> ""]

NoResult == [kind |-> "none", cls |-> "none", code |-> "none",
             json |-> FALSE, keys |-> {}, echo |-> {}, tag |-> "none",
             data |-> <<>>, rowCount |-> 0, executionTime |-> 0, text |-> NoText,
             id |-> 0, seen |-> FALSE]

\* what executeQuery returns for the rows the driver gave after elapsed
\* milliseconds: {data, rowCount: data.length, executionTime}
QueryResult(rows, elapsed) ==
    [NoResult EXCEPT !.kind = "rows", !.data = rows, !.rowCount = Len(rows),
                     !.executionTime = elapsed]

\* result.rows of the driver and Date.now() - startTime of a statement
\* that succeeded
DriverResults == {[rows |-> <<>>, elapsed |-> 0],
                  [rows |-> <<"John", "Jane">>, elapsed |-> 15]}

\* the driver results told apart for a call: those of a query the peer
\* wrote; one for the catalogue statements and the probe
driverResultsFor(call) ==
    IF call.tool \in {"read_query", "adapter"} /\ call.op = "executeQuery"
    THEN DriverResults
    ELSE {[rows |-> <<"John", "Jane">>, elapsed |-> 15]}

\* a boolean returned by testConnection, and the void of connect
Bool(b) == [NoResult EXCEPT !.kind = IF b THEN "true" ELSE "false"]

Void == [NoResult EXCEPT !.kind = "void"]

\* null, as a store returns it for an id it does not hold
Null == [NoResult EXCEPT !.kind = "null"]

\* the EmailMessage a store returns, by its id and its seen flag
Message(id, seen) == [NoResult EXCEPT !.kind = "message", !.id = id, !.seen = seen]

\* a rejected promise: cls "mcp" is the package's <X>MCPError class,
\* "raw" any other error value, "zod" a ZodError of <Schema>.parse
Thrown(cls, code) == [NoResult EXCEPT !.kind = "thrown", !.cls = cls, !.code = code]

\* McpToolResult {content: [{type: "text", text}]}
Envelope(json, keys, echo, tag) ==
    [NoResult EXCEPT !.kind = "envelope", !.json = json, !.keys = keys,
                     !.echo = echo, !.tag = tag]

\* the JSON key under which a failure payload carries a request field
PayloadKey(p, field) == IF p = "aws" /\ field = "name" THEN "secretName" ELSE field

\* the params of a tool call the model tells apart
NoParams == [tableName |-> "", schemaName |-> "", username |-> "", accountId |-> 0,
             messageId |-> 0]

\* a catch block that reports the error alone, as listTables does
formatError_errorOnly(p, t, params, err) ==
    Envelope(TRUE, {"error"}, {},
             IF err.cls = "mcp" THEN BackendTag(p) ELSE "Unexpected error:")

\* the catch block of a tool method (formatError in TempMailMCPTools)
formatError(p, t, params, err) ==
    IF ~t.json
    THEN Envelope(FALSE, {}, {}, "Error retrieving active metrics:")
    ELSE [Envelope(TRUE,
                   {"error"} \cup {PayloadKey(p, f) : f \in t.echo},
                   t.echo,
                   IF err.cls = "mcp" THEN BackendTag(p) ELSE "Unexpected error:")
          EXCEPT !.text = [NoText EXCEPT !.tableName =
                             IF "tableName" \in t.echo THEN params.tableName ELSE ""]]

\* an executionTime copied as a number
formatExecutionTime_number(executionTime) == ToString(executionTime)

\* `${result.executionTime}ms`
formatExecutionTime(executionTime) == ToString(executionTime) \o "ms"

\* the object readQuery serialises for a QueryResult
readQueryText(result) ==
    [NoText EXCEPT !.rowCount = result.rowCount,
                   !.executionTime = formatExecutionTime(result.executionTime),
                   !.data = result.data]

\* what a tool method returns (or throws) once its backend call has settled
\* with out: a value, or a thrown error; for a null of the store readEmail
\* and getInbox throw NOT_FOUND inside their try block
toolMethod(p, name, params, out) ==
    LET t == ToolOf(p, name) IN
    IF out.kind = "null"
    THEN formatError(p, t, params, Thrown("mcp", "NOT_FOUND"))
    ELSE IF out.kind # "thrown"
    THEN [Envelope(TRUE, t.okKeys, {}, "none") EXCEPT
            !.text = IF name = "read_query" THEN readQueryText(out)
                     ELSE IF name = "describe_table"
                     THEN [NoText EXCEPT !.tableName = params.tableName]
                     ELSE NoText]
    ELSE IF t.catches THEN formatError(p, t, params, out)
    ELSE out

\* ------------------------------------------------------------------ state
VARIABLES
    harness,        \* "server": a server process started by index.ts;
                    \* "adapter": a connection class driven directly
    pkg,            \* the package this process / adapter belongs to
    phase,          \* position of index.ts / start(): loading, constructed,
                    \* starting, binding,
                    \* ready, exited ("none" under the adapter harness)
    probe,          \* result of the start-up connectivity probe
    transportBound, \* server.connect(transport) has resolved
    exitCode,       \* argument of process.exit, "none" while running
    exitReason,     \* which path called process.exit
    calls,          \* the adapter / tool calls in flight, by slot
    shutdownSig,    \* the event whose handler awaits cleanup(), or "none"
    shutdownCount,  \* how many handlers of setupGracefulShutdown have run
    accounts,       \* the accounts of the email store
    messages,       \* the messages of the email store
    nextId,         \* the identifiers crypto.randomUUID() has handed out so far
    mirror          \* the D1 database and the last result of its client when
                    \* both stores are given the same operations

vars == <<harness, pkg, phase, probe, transportBound, exitCode, exitReason, calls,
          shutdownSig, shutdownCount, accounts, messages, nextId, mirror>>

\* the variables of the server process and of the SQL adapters, and the
\* mirrored store that only the comparison of the two stores uses
serverVars == <<harness, pkg, phase, probe, transportBound, exitCode, exitReason,
                shutdownSig, shutdownCount, mirror>>

\* an empty D1 database
NoMirror == [accounts |-> {}, messages |-> {}, delivered |-> NoResult]

\* slot 0 carries the calls start() makes, the others the tool calls
CallIds == 0..MaxCalls

ToolSlots == 1..MaxCalls

\* silent: the backend has stopped answering the I/O of this call.
\* probes counts, in slot 0, the connectivity probes start() has begun.
\* id is the identifier a store call drew from crypto.randomUUID(); prior
\* remembers the accounts that held the requested address when a
\* create_email_account call began.
\* conn, ends, sent and users describe the connection the call in this slot
\* opened (users: the slots whose calls queried or ended it); client is what
\* the call's variable `client` refers to: {} for null, else the slot whose
\* call opened the connection
FreeCall ==
    [tool |-> "none", op |-> "none", valid |-> TRUE, invoked |-> FALSE,
     stmt |-> <<>>, pc |-> "free", conn |-> "none", ends |-> 0, sent |-> <<>>,
     pending |-> NoResult, outcome |-> "none", result |-> NoResult,
     subs |-> <<>>, delivered |-> NoResult, client |-> {}, users |-> {},
     params |-> NoParams, id |-> 0, prior |-> {}, probes |-> 0,
     silent |-> FALSE]

\* "SELECT 1 as test" of testConnection
TestStatement == <<"SELECT", "ws", "x">>

\* the query arguments of the tool calls, and of the calls that run beside
\* the first one when the adapter is driven directly
SampleQueries == {<<"SELECT", "ws", "x">>, <<"delete", "ws", "x">>}

\* a tableName / schemaName that closes the quoted literal it is put in
QuoteBreaker == "users'; DELETE FROM users; --"

\* the tableName arguments of describe_table and the schemaName arguments
\* of list_tables: any non-empty string passes the schema
TableNames == {"users", "non_existent", QuoteBreaker}

\* the lexemes of an argument string
lexemesOf(name) ==
    IF name = QuoteBreaker
    THEN <<"x", "'", ";", "ws", "delete", "ws", "x", ";", "ws", "--">>
    ELSE <<"x">>

\* a template literal `... WHERE col = '${name}' ORDER BY ...`: the
\* argument is copied between the quotes as it is
interpolate(name) ==
    <<"ws", "SELECT", "ws", "x", "ws", "'">> \o lexemesOf(name)
       \o <<"'", "ws", "x", "ws">>

\* the statement a SQL tool hands to executeQuery: listTables and
\* describeTable build theirs from schemaName and tableName (the MySQL
\* listTables from the configured database)
statementOf(p, name, query, params) ==
    CASE name = "read_query" -> query
      [] name = "show_databases" -> <<"SHOW", "ws", "x">>
      [] name = "describe_table" -> interpolate(params.tableName)
      [] name = "list_tables" /\ p = "postgresql" -> interpolate(params.schemaName)
      [] name = "list_tables" -> interpolate("database")
      [] OTHER -> <<"ws", "SELECT", "ws", "x", "ws">>

\* error codes the backend reports for a failed statement
QueryErrorCodes(p) == IF p = "postgresql" THEN {"42P01"} ELSE {"ER_NO_SUCH_TABLE"}

\* a call that has settled: adapter-level calls keep the adapter's outcome,
\* tool calls pass it through the tool method
Finish(call, out, outcome) ==
    [call EXCEPT !.pc = "done", !.outcome = outcome, !.delivered = out,
                 !.pending = NoResult,
                 !.result = IF call.tool = "adapter" THEN out
                            ELSE toolMethod(pkg, call.tool, call.params, out)]

\* the process has not exited and no handler of setupGracefulShutdown is
\* between its await of cleanup() and its process.exit: only promise jobs
\* run there, no callback of the event loop
Running == exitCode = "none" /\ shutdownSig = "none"

\* ----------------------------------------------------- adapter operations
\* executeQuery up to its first await: validateReadOnlyQuery throws before
\* the try block, otherwise createClient is awaited
executeQuery(call) ==
    IF validateReadOnlyQuery(pkg, call.stmt)
    THEN [call EXCEPT !.pc = "connecting"]
    ELSE Finish(call, Thrown("mcp", "WRITE_OPERATION_NOT_ALLOWED"), "policy")

\* the adapter harness calls executeQuery
executeQuery_enter(c) ==
    /\ Running
    /\ calls[c].pc = "called"
    /\ calls' = [calls EXCEPT ![c] = executeQuery(calls[c])]
    /\ UNCHANGED <<harness, pkg, phase, probe, transportBound, exitCode, exitReason, shutdownSig, shutdownCount,
                   accounts, messages, nextId, mirror>>

\* client.end() is invoked by the call in slot c on the connection k
endClient(cs, c, k) ==
    [cs EXCEPT ![k].conn = "closing", ![k].ends = @ + 1, ![k].users = @ \cup {c}]

\* an adapter that keeps the client in a field of the connection object:
\* the calls in flight all see the client assigned last
createClient_resolved_shared(c) ==
    LET call == calls[c]
        shared == [k \in CallIds |->
                     IF calls[k].client # {} THEN [calls[k] EXCEPT !.client = {c}]
                     ELSE calls[k]]
    IN  /\ Running
        /\ call.pc = "connecting" /\ ~calls[c].silent
        /\ calls' =
              IF call.op = "connect"
              THEN endClient([shared EXCEPT ![c] =
                                [call EXCEPT !.client = {c}, !.pending = Void,
                                             !.outcome = "ok", !.pc = "ending"]], c, c)
              ELSE [shared EXCEPT ![c] =
                      [call EXCEPT !.client = {c}, !.conn = "open",
                                   !.sent = Append(call.sent, call.stmt),
                                   !.users = call.users \cup {c}, !.pc = "querying"]]
        /\ UNCHANGED <<harness, pkg, phase, probe, transportBound, exitCode,
                       exitReason, shutdownSig, shutdownCount,
                   accounts, messages, nextId, mirror>>

\* createClient / createConnection resolves and the call's local variable
\* holds the new client: connect() ends it at once, executeQuery and
\* testConnection pass their statement to it
createClient_resolved(c) ==
    LET call == calls[c] IN
    /\ Running
    /\ call.pc = "connecting" /\ ~calls[c].silent
    /\ calls' =
          IF call.op = "connect"
          THEN endClient([calls EXCEPT ![c] =
                            [call EXCEPT !.client = {c}, !.pending = Void,
                                         !.outcome = "ok", !.pc = "ending"]], c, c)
          ELSE [calls EXCEPT ![c] =
                  [call EXCEPT !.client = {c}, !.conn = "open",
                               !.sent = Append(call.sent, call.stmt),
                               !.users = call.users \cup {c}, !.pc = "querying"]]
    /\ UNCHANGED <<harness, pkg, phase, probe, transportBound, exitCode,
                   exitReason, shutdownSig, shutdownCount,
                   accounts, messages, nextId, mirror>>

\* createClient rejects with CONNECTION_ERROR, because the backend refused
\* or because the driver's connection timer (connectionTimeout, 30000 ms by
\* default) ran out on a backend that does not answer: executeQuery's catch
\* rethrows it with the same code, testConnection's catch returns false;
\* client is still null in the finally block
createClient_rejected(c) ==
    LET call == calls[c] IN
    /\ Running
    /\ call.pc = "connecting"
    /\ calls' = [calls EXCEPT ![c] =
          Finish(call, IF call.op = "testConnection" THEN Bool(FALSE)
                       ELSE Thrown("mcp", "CONNECTION_ERROR"), "connectFault")]
    /\ UNCHANGED <<harness, pkg, phase, probe, transportBound, exitCode,
                   exitReason, shutdownSig, shutdownCount,
                   accounts, messages, nextId, mirror>>

\* the value a settled statement leaves pending while finally runs
settled(call, ok, code, rows, elapsed) ==
    [call EXCEPT !.pending = IF call.op = "testConnection" THEN Bool(ok)
                             ELSE IF ok THEN QueryResult(rows, elapsed)
                             ELSE Thrown("mcp", code),
                 !.outcome = IF ok THEN "ok" ELSE "backendFault",
                 !.pc = "ending"]

\* a variant without the finally block: a failed statement leaves the
\* client un-ended
query_settled_nofinally(c) ==
    LET call == calls[c] IN
    /\ Running
    /\ call.pc = "querying" /\ ~calls[c].silent
    /\ \/ \E k \in call.client, r \in driverResultsFor(call) :
            calls' = endClient([calls EXCEPT ![c] =
                                  settled(call, TRUE, "none", r.rows, r.elapsed)], c, k)
       \/ \E code \in QueryErrorCodes(pkg) :
            calls' = [calls EXCEPT ![c] =
               Finish(call, IF call.op = "testConnection" THEN Bool(FALSE)
                            ELSE Thrown("mcp", code), "backendFault")]
    /\ UNCHANGED <<harness, pkg, phase, probe, transportBound, exitCode,
                   exitReason, shutdownSig, shutdownCount,
                   accounts, messages, nextId, mirror>>

\* client.query / connection.execute settles; the catch block wraps a failure
\* in the package's error with the driver's code (testConnection returns
\* false); the finally block then calls end() on what `client` refers to
query_settled(c) ==
    LET call == calls[c] IN
    /\ Running
    /\ call.pc = "querying" /\ ~calls[c].silent
    /\ \E k \in call.client :
         \/ \E r \in driverResultsFor(call) :
              calls' = endClient([calls EXCEPT ![c] =
                                    settled(call, TRUE, "none", r.rows, r.elapsed)], c, k)
         \/ \E code \in QueryErrorCodes(pkg) :
              calls' = endClient([calls EXCEPT ![c] =
                                    settled(call, FALSE, code, <<>>, 0)], c, k)
    /\ UNCHANGED <<harness, pkg, phase, probe, transportBound, exitCode,
                   exitReason, shutdownSig, shutdownCount,
                   accounts, messages, nextId, mirror>>

\* client.end() settles: when it rejects, the rejection leaves the finally
\* block (or connect()) in place of the pending value
end_settled(c) ==
    LET call == calls[c] IN
    /\ Running
    /\ call.pc = "ending" /\ ~calls[c].silent
    /\ \E k \in call.client :
         LET closed == [calls EXCEPT ![k].conn = "closed"] IN
         \/ calls' = [closed EXCEPT ![c] = Finish(closed[c], call.pending, call.outcome)]
         \/ calls' = [closed EXCEPT ![c] =
               Finish(closed[c], Thrown("raw", "END_FAILED"), "endFault")]
    /\ UNCHANGED <<harness, pkg, phase, probe, transportBound, exitCode,
                   exitReason, shutdownSig, shutdownCount,
                   accounts, messages, nextId, mirror>>

\* -------------------------------------------------------- adapter harness
\* executeQuery is called on one connection object once per slot, and the
\* calls run concurrently
InitAdapter ==
    /\ harness = "adapter"
    /\ pkg \in SqlAdapters
    /\ phase = "none"
    /\ probe = "none"
    /\ transportBound = FALSE
    /\ exitCode = "none"
    /\ exitReason = "none"
    /\ shutdownSig = "none"
    /\ shutdownCount = 0
    /\ accounts = {}
    /\ messages = {}
    /\ nextId = 0
    /\ mirror = NoMirror
    /\ \E q \in Queries, others \in [CallIds -> SampleQueries] :
         calls = [c \in CallIds |->
                    [FreeCall EXCEPT !.tool = "adapter", !.op = "executeQuery",
                                     !.invoked = TRUE, !.pc = "called",
                                     !.stmt = IF c = 1 THEN q ELSE others[c]]]

NextAdapter ==
    \/ \E c \in CallIds : executeQuery_enter(c)
    \/ \E c \in CallIds : createClient_resolved(c)
    \/ \E c \in CallIds : createClient_rejected(c)
    \/ \E c \in CallIds : query_settled(c)
    \/ \E c \in CallIds : end_settled(c)

SpecAdapter == InitAdapter /\ [][NextAdapter]_vars

\* --------------------------------------------------------- server process
\* servers whose start() probes the backend before binding the transport
ProbedServers == {"postgresql", "mysql", "datadog", "aws"}

Signals == {"SIGINT", "SIGTERM", "uncaughtException", "unhandledRejection"}

\* PostgreSQLConnection.disconnect / MySQLConnection.disconnect: a no-op,
\* connections are managed per query
disconnect(cs) == cs

\* cleanup of the SQL servers awaits db.disconnect(); the other servers have
\* no cleanup
cleanup(cs) == IF pkg \in SqlAdapters THEN disconnect(cs) ELSE cs

\* what process.exit leaves of the calls in flight: the handlers and their
\* promises are gone with the process, the connections they opened stay as
\* they were
abandon(cs) ==
    [c \in CallIds |->
       IF cs[c].conn = "none" THEN [FreeCall EXCEPT !.probes = cs[c].probes]
       ELSE [FreeCall EXCEPT !.op = cs[c].op, !.pc = "abandoned",
                             !.probes = cs[c].probes,
                             !.stmt = cs[c].stmt, !.outcome = cs[c].outcome,
                             !.conn = cs[c].conn, !.ends = cs[c].ends,
                             !.sent = cs[c].sent, !.client = cs[c].client,
                             !.users = cs[c].users]]

\* process.exit(code), after cleanup where the path has one
Exit(code, reason) ==
    /\ exitCode' = code
    /\ exitReason' = reason
    /\ phase' = "exited"
    /\ calls' = abandon(cleanup(calls))

AdapterCall(op, stmt, pc) ==
    [FreeCall EXCEPT !.tool = "adapter", !.op = op, !.invoked = TRUE,
                     !.stmt = stmt, !.pc = pc]

\* servers whose constructor or fromEnvironment validates the environment
ConfiguredServers == Packages \ {"npm"}

\* index.ts: <Server>.fromEnvironment() / new <Server>(); a configuration
\* the schema (or the TempMail constructor) refuses throws into the catch
\* block of index.ts: process.exit(1)
fromEnvironment(ok) ==
    /\ Running /\ phase = "loading"
    /\ ok \/ pkg \in ConfiguredServers
    /\ IF ok
       THEN /\ phase' = "constructed"
            /\ UNCHANGED <<exitCode, exitReason, calls,
                   accounts, messages, nextId>>
       ELSE Exit("1", "badConfig")
    /\ UNCHANGED <<harness, pkg, probe, transportBound, shutdownSig, shutdownCount,
                   accounts, messages, nextId, mirror>>

\* start() of the PostgreSQL and MySQL servers: await this.db.connect()
start_sql ==
    /\ Running /\ phase = "constructed" /\ pkg \in SqlAdapters
    /\ phase' = "starting"
    /\ calls' = [calls EXCEPT ![0] =
          [AdapterCall("connect", <<>>, "connecting") EXCEPT !.probes = 1]]
    /\ UNCHANGED <<harness, pkg, probe, transportBound, exitCode, exitReason, shutdownSig, shutdownCount,
                   accounts, messages, nextId, mirror>>

\* start() of the Datadog and AWS servers: await this.client.testConnection()
start_probe ==
    /\ Running /\ phase = "constructed" /\ pkg \in ProbedServers \ SqlAdapters
    /\ phase' = "starting"
    /\ calls' = [calls EXCEPT ![0] =
          [AdapterCall("testConnection", <<>>, "backend") EXCEPT !.probes = 1]]
    /\ UNCHANGED <<harness, pkg, probe, transportBound, exitCode, exitReason, shutdownSig, shutdownCount,
                   accounts, messages, nextId, mirror>>

\* start() of the NPM and TempMail servers: the transport is connected at once
start_plain ==
    /\ Running /\ phase = "constructed" /\ pkg \notin ProbedServers
    /\ phase' = "binding"
    /\ UNCHANGED <<harness, pkg, probe, transportBound, exitCode, exitReason, calls, shutdownSig, shutdownCount,
                   accounts, messages, nextId, mirror>>

\* testConnection of DatadogClient / SecretsManagerClientWrapper: one API
\* call, true when it resolves, false when it throws
testConnection_settled(ok) ==
    /\ Running /\ calls[0].op = "testConnection" /\ calls[0].pc = "backend"
    /\ ~calls[0].silent
    /\ calls' = [calls EXCEPT ![0] =
          Finish(calls[0], Bool(ok), IF ok THEN "ok" ELSE "connectFault")]
    /\ UNCHANGED <<harness, pkg, phase, probe, transportBound, exitCode, exitReason, shutdownSig, shutdownCount,
                   accounts, messages, nextId, mirror>>

\* a start() that calls db.connect() again when it was rejected
start_afterConnect_reconnect ==
    /\ Running /\ phase = "starting"
    /\ calls[0].op = "connect" /\ calls[0].pc = "done"
    /\ calls' = [calls EXCEPT ![0] =
          IF calls[0].result.kind = "thrown"
          THEN [AdapterCall("connect", <<>>, "connecting")
                  EXCEPT !.probes = calls[0].probes + 1]
          ELSE [AdapterCall("testConnection", TestStatement, "connecting")
                  EXCEPT !.probes = calls[0].probes + 1]]
    /\ UNCHANGED <<harness, pkg, phase, probe, transportBound, exitCode, exitReason,
                   shutdownSig, shutdownCount, accounts, messages, nextId, mirror>>

\* start() after db.connect(): a rejection goes to the catch block (cleanup,
\* process.exit(1)), otherwise testConnection is awaited
start_afterConnect ==
    /\ Running /\ phase = "starting"
    /\ calls[0].op = "connect" /\ calls[0].pc = "done"
    /\ IF calls[0].result.kind = "thrown"
       THEN /\ probe' = "failed"
            /\ Exit("1", "probeFailed")
            /\ UNCHANGED <<harness, pkg, transportBound, shutdownSig, shutdownCount,
                   accounts, messages, nextId, mirror>>
       ELSE /\ calls' = [calls EXCEPT ![0] =
                  [AdapterCall("testConnection", TestStatement, "connecting")
                     EXCEPT !.probes = calls[0].probes + 1]]
            /\ UNCHANGED <<harness, pkg, phase, probe, transportBound, exitCode, exitReason, shutdownSig, shutdownCount,
                   accounts, messages, nextId, mirror>>

\* a start() that does not look at isConnected
start_afterTest_unchecked ==
    /\ Running /\ phase = "starting"
    /\ calls[0].op = "testConnection" /\ calls[0].pc = "done"
    /\ probe' = IF calls[0].result = Bool(TRUE) THEN "ok" ELSE "failed"
    /\ phase' = "binding"
    /\ UNCHANGED <<harness, pkg, transportBound, exitCode, exitReason, calls, shutdownSig, shutdownCount,
                   accounts, messages, nextId, mirror>>

\* start() after testConnection: only isConnected = true goes on to the
\* transport; false throws CONNECTION_TEST_FAILED into the catch block
start_afterTest ==
    /\ Running /\ phase = "starting"
    /\ calls[0].op = "testConnection" /\ calls[0].pc = "done"
    /\ IF calls[0].result = Bool(TRUE)
       THEN /\ probe' = "ok"
            /\ phase' = "binding"
            /\ UNCHANGED <<harness, pkg, transportBound, exitCode, exitReason, calls, shutdownSig, shutdownCount,
                   accounts, messages, nextId, mirror>>
       ELSE /\ probe' = "failed"
            /\ Exit("1", "probeFailed")
            /\ UNCHANGED <<harness, pkg, transportBound, shutdownSig, shutdownCount,
                   accounts, messages, nextId, mirror>>

\* await this.server.connect(transport) settles; a rejection goes to the
\* catch block of start()
bind_settled(ok) ==
    /\ Running /\ phase = "binding"
    /\ IF ok
       THEN /\ transportBound' = TRUE
            /\ phase' = "ready"
            /\ UNCHANGED <<harness, pkg, probe, exitCode, exitReason, calls, shutdownSig, shutdownCount,
                   accounts, messages, nextId, mirror>>
       ELSE /\ Exit("1", "bindFailed")
            /\ UNCHANGED <<harness, pkg, probe, transportBound, shutdownSig, shutdownCount,
                   accounts, messages, nextId, mirror>>

\* handlers that all exit the way shutdown(signal) does
exitCodeOf_zero(sig) == "0"

\* process.exit(0) of shutdown(signal), process.exit(1) of the
\* uncaughtException and unhandledRejection handlers
exitCodeOf(sig) == IF sig \in {"SIGINT", "SIGTERM"} THEN "0" ELSE "1"

\* servers whose handlers await this.cleanup() before process.exit
HasCleanup == pkg \in SqlAdapters

\* a handler of setupGracefulShutdown is invoked. In the SQL servers it
\* awaits this.cleanup(): until it resumes and exits no call in flight runs
\* again, and a further signal delivered before that starts a second
\* handler behind it. In the other servers the handler calls process.exit
\* synchronously.
shutdown(sig) ==
    /\ exitCode = "none" /\ phase \in {"constructed", "starting", "binding", "ready"}
    /\ shutdownCount < MaxSignals
    /\ shutdownCount' = shutdownCount + 1
    /\ IF HasCleanup
       THEN /\ shutdownSig' = IF shutdownSig = "none" THEN sig ELSE shutdownSig
            /\ calls' = abandon(calls)
            /\ UNCHANGED <<harness, pkg, phase, probe, transportBound, exitCode,
                           exitReason,
                   accounts, messages, nextId, mirror>>
       ELSE /\ shutdownSig' = "none"
            /\ Exit(exitCodeOf(sig), sig)
            /\ UNCHANGED <<harness, pkg, probe, transportBound,
                   accounts, messages, nextId, mirror>>

\* a handler that treats a second invocation as a failure
shutdown_resume_once ==
    /\ exitCode = "none" /\ shutdownSig # "none"
    /\ Exit(IF shutdownCount > 1 THEN "1" ELSE exitCodeOf(shutdownSig), shutdownSig)
    /\ shutdownSig' = "none"
    /\ UNCHANGED <<harness, pkg, probe, transportBound, shutdownCount,
                   accounts, messages, nextId, mirror>>

\* cleanup() has resolved (it catches whatever disconnect throws): the
\* handler that awaited it first calls process.exit
shutdown_resume ==
    /\ exitCode = "none" /\ shutdownSig # "none"
    /\ Exit(exitCodeOf(shutdownSig), shutdownSig)
    /\ shutdownSig' = "none"
    /\ UNCHANGED <<harness, pkg, probe, transportBound, shutdownCount,
                   accounts, messages, nextId, mirror>>

\* ------------------------------------------------------------- tool calls
\* the three metric queries of DatadogClient.getSpansMetrics
queries == <<"hits", "duration", "errors">>

\* the callback registered for a tool, up to its first await
handler(name, valid, query, tableName) ==
    LET t == ToolOf(pkg, name)
        params == IF name = "list_tables"
                  THEN [NoParams EXCEPT !.schemaName = tableName]
                  ELSE [NoParams EXCEPT !.tableName = tableName]
        base == [FreeCall EXCEPT !.tool = name, !.valid = valid, !.params = params]
        call == [base EXCEPT !.invoked = TRUE]
    IN  IF handlerParses(pkg, name) /\ ~valid
        THEN [base EXCEPT !.pc = "done", !.outcome = "invalid",
                          !.result = Thrown("zod", "ZodError")]
        ELSE IF ~t.backend THEN Finish(call, Void, "ok")
        ELSE IF pkg \in SqlAdapters
        THEN executeQuery([call EXCEPT !.op = "executeQuery",
                                       !.stmt = statementOf(pkg, name, query, params)])
        ELSE IF name = "get_spans_metrics"
        THEN [call EXCEPT !.op = "getSpansMetrics", !.pc = "backend",
                          !.subs = [i \in DOMAIN queries |-> "pending"]]
        ELSE [call EXCEPT !.op = "backend", !.pc = "backend"]

\* the peer calls a tool, which takes the first free slot; raw input that
\* violates the schema reaches only the callbacks that parse it themselves
toolCall(c) ==
    /\ Running /\ phase = "ready"
    /\ calls[c].pc = "free"
    /\ \A d \in ToolSlots : d < c => calls[d].pc # "free"
    /\ \E name \in ToolNames(pkg), valid \in BOOLEAN :
         \E query \in (IF name = "read_query" THEN SampleQueries ELSE {<<>>}),
            tableName \in (IF name = "describe_table"
                               \/ (name = "list_tables" /\ pkg = "postgresql")
                            THEN TableNames ELSE {""}) :
            /\ valid \/ handlerParses(pkg, name)
            /\ calls' = [calls EXCEPT ![c] = handler(name, valid, query, tableName)]
    /\ UNCHANGED <<harness, pkg, phase, probe, transportBound, exitCode, exitReason, shutdownSig, shutdownCount,
                   accounts, messages, nextId, mirror>>

\* why a backend call failed: the backend could not be reached at all, or
\* it answered with a fault of its own (not found, access denied)
Causes == {"unreachable", "notFound", "denied"}

\* the code each client method gives the error of its catch-all
operationCode(p, name) ==
    CASE name = "query_metrics" -> "METRICS_QUERY_FAILED"
      [] name = "get_active_metrics" -> "METRICS_QUERY_FAILED"
      [] name = "search_logs" -> "LOGS_SEARCH_FAILED"
      [] name = "list_dashboards" -> "DASHBOARDS_LIST_FAILED"
      [] name = "list_monitors" -> "MONITORS_LIST_FAILED"
      [] name = "list_hosts" -> "HOSTS_LIST_FAILED"
      [] name = "search_traces" -> "TRACES_SEARCH_FAILED"
      [] name = "list_services" -> "SERVICES_LIST_FAILED"
      [] name = "get_spans_metrics" -> "SPANS_METRICS_FAILED"
      [] name = "create_secret" -> "CREATE_FAILED"
      [] name = "update_secret" -> "UPDATE_FAILED"
      [] name = "get_secret" -> "GET_FAILED"
      [] name = "list_secrets" -> "LIST_FAILED"
      [] name = "delete_secret" -> "DELETE_FAILED"
      [] name = "describe_secret" -> "DESCRIBE_FAILED"
      [] name = "search_packages" -> "SEARCH_ERROR"
      [] p = "npm" -> "FETCH_ERROR"
      [] OTHER -> "D1_API_ERROR"

\* the error a client method of the Datadog, AWS, NPM or TempMail package
\* throws for a failed backend call
clientError(p, name, cause) ==
    CASE p = "datadog" -> Thrown("mcp", operationCode(p, name))
      [] p = "aws" ->
           IF cause = "notFound" /\ name \notin {"create_secret", "list_secrets"}
           THEN Thrown("mcp", "RESOURCE_NOT_FOUND")
           ELSE Thrown("mcp", operationCode(p, name))
      [] p = "npm" ->
           IF cause = "unreachable" THEN Thrown("mcp", "NETWORK_ERROR")
           ELSE IF cause = "notFound" /\ name = "get_package_info"
           THEN Thrown("mcp", "PACKAGE_NOT_FOUND")
           ELSE IF cause = "notFound" /\ name = "get_package_downloads"
           THEN Thrown("mcp", "DOWNLOADS_NOT_FOUND")
           ELSE Thrown("mcp", operationCode(p, name))
      [] OTHER ->
           IF cause = "unreachable" THEN Thrown("raw", "none")
           ELSE IF cause = "notFound" THEN Thrown("mcp", "D1_QUERY_ERROR")
           ELSE Thrown("mcp", operationCode(p, name))

\* a client whose calls are given up after a deadline: they settle even
\* when the backend does not answer
backend_settled_deadline(c, o) ==
    /\ Running
    /\ calls[c].op = "backend" /\ calls[c].pc = "backend"
    /\ calls' = [calls EXCEPT ![c] =
          CASE o = "ok" -> Finish(calls[c], Void, "ok")
            [] o \in Causes ->
                 Finish(calls[c], clientError(pkg, calls[c].tool, o),
                        IF o = "unreachable" THEN "connectFault" ELSE "backendFault")
            [] OTHER -> Finish(calls[c], Thrown("raw", "UNEXPECTED"), "unexpected")]
    /\ UNCHANGED <<harness, pkg, phase, probe, transportBound, exitCode, exitReason,
                   shutdownSig, shutdownCount,
                   accounts, messages, nextId, mirror>>

\* the client call awaited by a tool method of the Datadog, AWS, NPM and
\* TempMail packages settles: a value, the client's error for a failed
\* backend call, or any other error value
backend_settled(c, o) ==
    /\ Running
    /\ calls[c].op = "backend" /\ calls[c].pc = "backend" /\ ~calls[c].silent
    /\ calls' = [calls EXCEPT ![c] =
          CASE o = "ok" -> Finish(calls[c], Void, "ok")
            [] o \in Causes ->
                 Finish(calls[c], clientError(pkg, calls[c].tool, o),
                        IF o = "unreachable" THEN "connectFault" ELSE "backendFault")
            [] OTHER -> Finish(calls[c], Thrown("raw", "UNEXPECTED"), "unexpected")]
    /\ UNCHANGED <<harness, pkg, phase, probe, transportBound, exitCode, exitReason,
                   shutdownSig, shutdownCount,
                   accounts, messages, nextId, mirror>>

\* a getSpansMetrics that waits for every sub-query and returns whatever
\* succeeded (Promise.allSettled)
subquery_settled_allSettled(c, i, ok) ==
    LET call == calls[c]
        subs == [call.subs EXCEPT ![i] = IF ok THEN "ok" ELSE "failed"]
        after == [call EXCEPT !.subs = subs]
    IN  /\ Running
        /\ call.op = "getSpansMetrics" /\ i \in DOMAIN call.subs
        /\ ~call.silent
        /\ call.subs[i] = "pending"
        /\ calls' = [calls EXCEPT ![c] =
              IF call.pc = "backend" /\ \A j \in DOMAIN subs : subs[j] # "pending"
              THEN Finish(after, Void, "ok")
              ELSE after]
        /\ UNCHANGED <<harness, pkg, phase, probe, transportBound, exitCode,
                       exitReason, shutdownSig, shutdownCount,
                   accounts, messages, nextId, mirror>>

\* one metricsApi.queryMetrics of getSpansMetrics settles. Promise.all
\* rejects with the first rejection, which the catch block rethrows as
\* SPANS_METRICS_FAILED; it resolves when the last sub-query has resolved;
\* what settles after the rejection is ignored
subquery_settled(c, i, ok) ==
    LET call == calls[c]
        subs == [call.subs EXCEPT ![i] = IF ok THEN "ok" ELSE "failed"]
        after == [call EXCEPT !.subs = subs]
    IN  /\ Running
        /\ call.op = "getSpansMetrics" /\ i \in DOMAIN call.subs
        /\ ~call.silent
        /\ call.subs[i] = "pending"
        /\ calls' = [calls EXCEPT ![c] =
              IF call.pc # "backend" THEN after
              ELSE IF ~ok
              THEN Finish(after, Thrown("mcp", "SPANS_METRICS_FAILED"), "backendFault")
              ELSE IF \A j \in DOMAIN subs : subs[j] = "ok"
              THEN Finish(after, Void, "ok")
              ELSE after]
        /\ UNCHANGED <<harness, pkg, phase, probe, transportBound, exitCode,
                       exitReason, shutdownSig, shutdownCount,
                   accounts, messages, nextId, mirror>>

\* the backend stops answering the call in slot c: what the call awaits
\* (the connection, the statement's result, the end of the connection, the
\* HTTP response) will not arrive
backend_hangs(c) ==
    /\ Running
    /\ calls[c].pc \in {"connecting", "querying", "ending", "backend"}
    /\ ~calls[c].silent
    /\ calls' = [calls EXCEPT ![c].silent = TRUE]
    /\ UNCHANGED <<serverVars, accounts, messages, nextId>>

\* the settled call is answered and its slot is free again
respond(c) ==
    /\ Running
    /\ calls[c].pc = "done"
    /\ calls' = [calls EXCEPT ![c] = FreeCall]
    /\ UNCHANGED <<harness, pkg, phase, probe, transportBound, exitCode, exitReason, shutdownSig, shutdownCount,
                   accounts, messages, nextId, mirror>>

\* the process as index.ts starts to run
Init ==
    /\ harness = "server"
    /\ pkg \in Packages
    /\ phase = "loading"
    /\ probe = "none"
    /\ transportBound = FALSE
    /\ exitCode = "none"
    /\ exitReason = "none"
    /\ shutdownSig = "none"
    /\ shutdownCount = 0
    /\ accounts = {}
    /\ messages = {}
    /\ nextId = 0
    /\ mirror = NoMirror
    /\ calls = [c \in CallIds |-> FreeCall]

Next ==
    \/ \E ok \in BOOLEAN : fromEnvironment(ok)
    \/ start_sql
    \/ start_probe
    \/ start_plain
    \/ \E ok \in BOOLEAN : testConnection_settled(ok)
    \/ start_afterConnect
    \/ start_afterTest
    \/ \E ok \in BOOLEAN : bind_settled(ok)
    \/ \E sig \in Signals : shutdown(sig)
    \/ shutdown_resume
    \/ \E c \in ToolSlots : toolCall(c)
    \/ \E c \in CallIds : createClient_resolved(c)
    \/ \E c \in CallIds : createClient_rejected(c)
    \/ \E c \in CallIds : query_settled(c)
    \/ \E c \in CallIds : end_settled(c)
    \/ \E c \in ToolSlots, o \in Causes \cup {"ok", "unexpected"} :
          backend_settled(c, o)
    \/ \E c \in ToolSlots, i \in DOMAIN queries, ok \in BOOLEAN :
          subquery_settled(c, i, ok)
    \/ \E c \in CallIds : backend_hangs(c)
    \/ \E c \in ToolSlots : respond(c)

Spec == Init /\ [][Next]_vars

\* ------------------------------------------------------------ email store
\* InMemoryEmailStore and D1DatabaseClient, the implementations of EmailStore
Stores == {"memory", "d1"}

Usernames == {"alice", "bob"}

\* this.domain of TempMailMCPTools
domain == "test.example.com"

\* `${username}@${domain}`
addressOf(username) == <<username, "@", domain>>

\* the identifiers crypto.randomUUID() can return
Ids == 1..MaxIds

EmailAccount(id, username) ==
    [id |-> id, address |-> addressOf(username), username |-> username,
     is_active |-> TRUE]

EmailMessage(id, accountId, seen) == [id |-> id, account_id |-> accountId, seen |-> seen]

accountsWithAddress(address) == {a \in accounts : a.address = address}

accountsWithId(id) == {a \in accounts : a.id = id}

messagesOf(accountId) == {m \in messages : m.account_id = accountId}

StoreCall(tool, op, params) ==
    [FreeCall EXCEPT !.tool = tool, !.op = op, !.invoked = TRUE, !.params = params,
                     !.prior = {a.id : a \in accountsWithAddress(addressOf(params.username))}]

\* createEmailAccount of TempMailMCPTools calls store.createAccount.
\* InMemoryEmailStore.createAccount is synchronous: it throws ACCOUNT_EXISTS
\* when an account has the address, else draws an id and adds the account.
\* D1DatabaseClient.createAccount draws the id first and then awaits its
\* first query.
createEmailAccount(c, username) ==
    LET call == StoreCall("create_email_account", "createAccount",
                          [NoParams EXCEPT !.username = username])
    IN  /\ calls[c].pc = "free"
        /\ \A k \in CallIds : k < c => calls[k].pc # "free"
        /\ IF harness = "memory"
           THEN IF accountsWithAddress(addressOf(username)) # {}
                THEN /\ calls' = [calls EXCEPT ![c] =
                           Finish(call, Thrown("mcp", "ACCOUNT_EXISTS"), "backendFault")]
                     /\ UNCHANGED <<accounts, nextId>>
                ELSE /\ nextId < MaxIds
                     /\ nextId' = nextId + 1
                     /\ accounts' = accounts \cup {EmailAccount(nextId + 1, username)}
                     /\ calls' = [calls EXCEPT ![c] =
                           Finish([call EXCEPT !.id = nextId + 1], Void, "ok")]
           ELSE /\ nextId < MaxIds
                /\ nextId' = nextId + 1
                /\ calls' = [calls EXCEPT ![c] =
                      [call EXCEPT !.id = nextId + 1, !.pc = "d1_select"]]
                /\ UNCHANGED accounts
        /\ UNCHANGED <<serverVars, messages>>

\* a createAccount that inserts without looking the address up
d1_createAccount_select_unchecked(c) ==
    /\ calls[c].op = "createAccount" /\ calls[c].pc = "d1_select"
    /\ calls' = [calls EXCEPT ![c].pc = "d1_insert"]
    /\ UNCHANGED <<serverVars, accounts, messages, nextId>>

\* SELECT id FROM accounts WHERE address = ?; a row makes createAccount
\* throw ACCOUNT_EXISTS
d1_createAccount_select(c) ==
    LET call == calls[c] IN
    /\ call.op = "createAccount" /\ call.pc = "d1_select"
    /\ calls' = [calls EXCEPT ![c] =
          IF accountsWithAddress(addressOf(call.params.username)) # {}
          THEN Finish(call, Thrown("mcp", "ACCOUNT_EXISTS"), "backendFault")
          ELSE [call EXCEPT !.pc = "d1_insert"]]
    /\ UNCHANGED <<serverVars, accounts, messages, nextId>>

\* the error of query for a statement the database refuses: D1_API_ERROR
\* when the API answers it with an error status, D1_QUERY_ERROR when with
\* success: false
ConstraintErrorCodes == {"D1_API_ERROR", "D1_QUERY_ERROR"}

\* an accounts table whose address column is not UNIQUE
d1_createAccount_insert_nounique(c) ==
    LET call == calls[c] IN
    /\ call.op = "createAccount" /\ call.pc = "d1_insert"
    /\ accounts' = accounts \cup {EmailAccount(call.id, call.params.username)}
    /\ calls' = [calls EXCEPT ![c].pc = "d1_get"]
    /\ UNCHANGED <<serverVars, messages, nextId>>

\* INSERT INTO accounts: the UNIQUE constraint on address makes the
\* statement fail when another account took the address meanwhile
d1_createAccount_insert(c) ==
    LET call == calls[c] IN
    /\ call.op = "createAccount" /\ call.pc = "d1_insert"
    /\ IF accountsWithAddress(addressOf(call.params.username)) # {}
       THEN /\ \E code \in ConstraintErrorCodes :
                  calls' = [calls EXCEPT ![c] =
                     Finish(call, Thrown("mcp", code), "backendFault")]
            /\ UNCHANGED accounts
       ELSE /\ accounts' = accounts \cup {EmailAccount(call.id, call.params.username)}
            /\ calls' = [calls EXCEPT ![c].pc = "d1_get"]
    /\ UNCHANGED <<serverVars, messages, nextId>>

\* getAccountById(id) at the end of createAccount: when the row is gone
\* again, account! is null and the tool method fails reading account.id
d1_createAccount_get(c) ==
    LET call == calls[c] IN
    /\ call.op = "createAccount" /\ call.pc = "d1_get"
    /\ calls' = [calls EXCEPT ![c] =
          IF accountsWithId(call.id) = {}
          THEN Finish(call, Thrown("raw", "TypeError"), "unexpected")
          ELSE Finish(call, Void, "ok")]
    /\ UNCHANGED <<serverVars, accounts, messages, nextId>>

\* deleteEmailAccount of TempMailMCPTools calls store.deleteAccount.
\* InMemoryEmailStore.deleteAccount is synchronous: NOT_FOUND when no account
\* has the id, else the account and its messages are removed.
deleteEmailAccount(c, accountId) ==
    LET call == StoreCall("delete_email_account", "deleteAccount",
                          [NoParams EXCEPT !.accountId = accountId])
    IN  /\ calls[c].pc = "free"
        /\ \A k \in CallIds : k < c => calls[k].pc # "free"
        /\ IF harness = "memory"
           THEN IF accountsWithId(accountId) = {}
                THEN /\ calls' = [calls EXCEPT ![c] =
                           Finish(call, Thrown("mcp", "NOT_FOUND"), "backendFault")]
                     /\ UNCHANGED <<accounts, messages>>
                ELSE /\ accounts' = accounts \ accountsWithId(accountId)
                     /\ messages' = messages \ messagesOf(accountId)
                     /\ calls' = [calls EXCEPT ![c] = Finish(call, Void, "ok")]
           ELSE /\ calls' = [calls EXCEPT ![c] = [call EXCEPT !.pc = "d1_deleteMessages"]]
                /\ UNCHANGED <<accounts, messages>>
        /\ UNCHANGED <<serverVars, nextId>>

\* DELETE FROM messages WHERE account_id = ?
d1_deleteAccount_messages(c) ==
    LET call == calls[c] IN
    /\ call.op = "deleteAccount" /\ call.pc = "d1_deleteMessages"
    /\ messages' = messages \ messagesOf(call.params.accountId)
    /\ calls' = [calls EXCEPT ![c].pc = "d1_deleteAccount"]
    /\ UNCHANGED <<serverVars, accounts, nextId>>

\* a messages table without ON DELETE CASCADE
d1_deleteAccount_account_nocascade(c) ==
    LET call == calls[c]
        rows == accountsWithId(call.params.accountId)
    IN  /\ call.op = "deleteAccount" /\ call.pc = "d1_deleteAccount"
        /\ accounts' = accounts \ rows
        /\ calls' = [calls EXCEPT ![c] =
              IF rows = {} THEN Finish(call, Thrown("mcp", "NOT_FOUND"), "backendFault")
              ELSE Finish(call, Void, "ok")]
        /\ UNCHANGED <<serverVars, messages, nextId>>

\* DELETE FROM accounts WHERE id = ?; the messages that reference the row
\* go with it (FOREIGN KEY ... ON DELETE CASCADE); meta.changes = 0 makes
\* deleteAccount throw NOT_FOUND
d1_deleteAccount_account(c) ==
    LET call == calls[c]
        rows == accountsWithId(call.params.accountId)
    IN  /\ call.op = "deleteAccount" /\ call.pc = "d1_deleteAccount"
        /\ accounts' = accounts \ rows
        /\ messages' = IF rows = {} THEN messages
                       ELSE messages \ messagesOf(call.params.accountId)
        /\ calls' = [calls EXCEPT ![c] =
              IF rows = {} THEN Finish(call, Thrown("mcp", "NOT_FOUND"), "backendFault")
              ELSE Finish(call, Void, "ok")]
        /\ UNCHANGED <<serverVars, nextId>>

\* InMemoryEmailStore.getMessageById: null for an unknown id, else the
\* message is marked seen and a copy of it returned
getMessageById(id) ==
    IF \E m \in messages : m.id = id THEN Message(id, TRUE) ELSE Null

\* the messages after the seen flag of message id has been set
markSeen(id) == {IF m.id = id THEN [m EXCEPT !.seen = TRUE] ELSE m : m \in messages}

\* readEmail of TempMailMCPTools calls store.getMessageById
readEmail(c, messageId) ==
    LET call == StoreCall("read_email", "getMessageById",
                          [NoParams EXCEPT !.messageId = messageId])
    IN  /\ calls[c].pc = "free"
        /\ \A k \in CallIds : k < c => calls[k].pc # "free"
        /\ IF harness = "memory"
           THEN /\ messages' = markSeen(messageId)
                /\ calls' = [calls EXCEPT ![c] =
                      LET out == getMessageById(messageId) IN
                      Finish(call, out, IF out = Null THEN "backendFault" ELSE "ok")]
           ELSE /\ calls' = [calls EXCEPT ![c] = [call EXCEPT !.pc = "d1_selectMessage"]]
                /\ UNCHANGED messages
        /\ UNCHANGED <<serverVars, accounts, nextId>>

\* SELECT * FROM messages WHERE id = ?; no row makes getMessageById
\* return null
d1_getMessageById_select(c) ==
    LET call == calls[c] IN
    /\ call.op = "getMessageById" /\ call.pc = "d1_selectMessage"
    /\ calls' = [calls EXCEPT ![c] =
          IF getMessageById(call.params.messageId) = Null
          THEN Finish(call, Null, "backendFault")
          ELSE [call EXCEPT !.pc = "d1_updateSeen"]]
    /\ UNCHANGED <<serverVars, accounts, messages, nextId>>

\* a getMessageById that returns the selected row without the UPDATE
d1_getMessageById_update_skipped(c) ==
    LET call == calls[c] IN
    /\ call.op = "getMessageById" /\ call.pc = "d1_updateSeen"
    /\ calls' = [calls EXCEPT ![c] =
          Finish(call, Message(call.params.messageId, TRUE), "ok")]
    /\ UNCHANGED <<serverVars, accounts, messages, nextId>>

\* UPDATE messages SET seen = 1 WHERE id = ?, then the selected row is
\* returned with seen: true
d1_getMessageById_update(c) ==
    LET call == calls[c] IN
    /\ call.op = "getMessageById" /\ call.pc = "d1_updateSeen"
    /\ messages' = markSeen(call.params.messageId)
    /\ calls' = [calls EXCEPT ![c] =
          Finish(call, Message(call.params.messageId, TRUE), "ok")]
    /\ UNCHANGED <<serverVars, accounts, nextId>>

\* a query of D1DatabaseClient fails: fetch rejects (the error passes
\* through query) or the API answers with an error status (D1_API_ERROR)
d1_query_failed(c, cause) ==
    LET call == calls[c] IN
    /\ call.pc \in {"d1_select", "d1_insert", "d1_get", "d1_deleteMessages",
                    "d1_deleteAccount", "d1_selectMessage", "d1_updateSeen"}
    /\ calls' = [calls EXCEPT ![c] =
          Finish(call, clientError(pkg, call.tool, cause),
                 IF cause = "unreachable" THEN "connectFault" ELSE "backendFault")]
    /\ UNCHANGED <<serverVars, accounts, messages, nextId>>

\* a messages table without the foreign key on account_id
createMessage_nofk(accountId) ==
    /\ nextId < MaxIds
    /\ nextId' = nextId + 1
    /\ messages' = messages \cup {EmailMessage(nextId + 1, accountId, harness = "d1")}
    /\ UNCHANGED <<serverVars, accounts, calls>>

\* a message is stored for an account: InMemoryEmailStore.createMessage adds
\* it whatever the accountId; D1DatabaseClient.createMessage inserts it,
\* which the foreign key on account_id lets through only while the account
\* exists, and reads it back with getMessageById, which marks it seen
createMessage(accountId) ==
    /\ nextId < MaxIds
    /\ harness = "d1" => accountsWithId(accountId) # {}
    /\ nextId' = nextId + 1
    /\ messages' = messages \cup {EmailMessage(nextId + 1, accountId, harness = "d1")}
    /\ UNCHANGED <<serverVars, accounts, calls>>

\* the Email Worker receives a mail for username's address on the D1
\* database: the mailbox is looked up by address and the message inserted
\* with the column default seen = 0
emailWorker(username) ==
    /\ harness = "d1"
    /\ nextId < MaxIds
    /\ \E a \in accountsWithAddress(addressOf(username)) :
          /\ a.is_active
          /\ messages' = messages \cup {EmailMessage(nextId + 1, a.id, FALSE)}
    /\ nextId' = nextId + 1
    /\ UNCHANGED <<serverVars, accounts, calls>>

InitStore ==
    /\ harness \in Stores
    /\ pkg = "tempmail"
    /\ phase = "none"
    /\ probe = "none"
    /\ transportBound = FALSE
    /\ exitCode = "none"
    /\ exitReason = "none"
    /\ shutdownSig = "none"
    /\ shutdownCount = 0
    /\ accounts = {}
    /\ messages = {}
    /\ nextId = 0
    /\ mirror = NoMirror
    /\ calls = [c \in CallIds |-> FreeCall]

NextStore ==
    \/ \E c \in CallIds, username \in Usernames : createEmailAccount(c, username)
    \/ \E c \in CallIds : d1_createAccount_select(c)
    \/ \E c \in CallIds : d1_createAccount_insert(c)
    \/ \E c \in CallIds : d1_createAccount_get(c)
    \/ \E c \in CallIds, accountId \in Ids : deleteEmailAccount(c, accountId)
    \/ \E c \in CallIds : d1_deleteAccount_messages(c)
    \/ \E c \in CallIds : d1_deleteAccount_account(c)
    \/ \E c \in CallIds, cause \in {"unreachable", "denied"} : d1_query_failed(c, cause)
    \/ \E accountId \in Ids : createMessage(accountId)
    \/ \E username \in Usernames : emailWorker(username)
    \/ \E c \in CallIds, messageId \in Ids : readEmail(c, messageId)
    \/ \E c \in CallIds : d1_getMessageById_select(c)
    \/ \E c \in CallIds : d1_getMessageById_update(c)
    \/ \E c \in CallIds : respond(c)

SpecStore == InitStore /\ [][NextStore]_vars

\* ------------------------------------------------- the two stores compared
\* the EmailAccount a store returns, by its id
Account(id) == [NoResult EXCEPT !.kind = "account", !.id = id]

\* the messages getInbox returns, each by its id and seen flag, in order
Inbox(rows) == [NoResult EXCEPT !.kind = "inbox", !.data = rows]

\* messages in the order they were stored (ids are handed out in that order)
RECURSIVE oldestFirst(_)
oldestFirst(ms) ==
    IF ms = {} THEN <<>>
    ELSE LET m == CHOOSE x \in ms : \A y \in ms : x.id <= y.id
         IN  <<[id |-> m.id, seen |-> m.seen]>> \o oldestFirst(ms \ {m})

\* ORDER BY created_at DESC
newestFirst(ms) ==
    LET q == oldestFirst(ms) IN [i \in 1..Len(q) |-> q[Len(q) + 1 - i]]

\* a store after an operation, and what the operation returned or threw
Answer(acc, msg, out) == [accounts |-> acc, messages |-> msg, delivered |-> out]

\* the methods of InMemoryEmailStore applied to the store st: arg is the
\* username of createAccount and the id argument of the others, id what
\* crypto.randomUUID() returns when the method calls it
InMemoryEmailStore(st, op, arg, id) ==
    LET acc == st.accounts
        msg == st.messages
    IN
    CASE op = "createAccount" ->
           IF \E a \in acc : a.address = addressOf(arg)
           THEN Answer(acc, msg, Thrown("mcp", "ACCOUNT_EXISTS"))
           ELSE Answer(acc \cup {EmailAccount(id, arg)}, msg, Account(id))
      [] op = "getAccountById" ->
           Answer(acc, msg, IF \E a \in acc : a.id = arg THEN Account(arg) ELSE Null)
      [] op = "deleteAccount" ->
           IF \A a \in acc : a.id # arg
           THEN Answer(acc, msg, Thrown("mcp", "NOT_FOUND"))
           ELSE Answer({a \in acc : a.id # arg}, {m \in msg : m.account_id # arg}, Void)
      [] op = "createMessage" ->
           Answer(acc, msg \cup {EmailMessage(id, arg, FALSE)}, Message(id, FALSE))
      [] op = "getMessageById" ->
           IF \A m \in msg : m.id # arg THEN Answer(acc, msg, Null)
           ELSE Answer(acc,
                       {IF m.id = arg THEN [m EXCEPT !.seen = TRUE] ELSE m : m \in msg},
                       Message(arg, TRUE))
      [] op = "getInbox" ->
           Answer(acc, msg, Inbox(oldestFirst({m \in msg : m.account_id = arg})))
      [] OTHER ->
           IF \A m \in msg : m.id # arg
           THEN Answer(acc, msg, Thrown("mcp", "NOT_FOUND"))
           ELSE Answer(acc, {m \in msg : m.id # arg}, Void)

\* the methods of D1DatabaseClient applied to the database st, their
\* queries run one after the other with nothing in between and each
\* answered by the API; code is the error of a refused statement
D1DatabaseClient(st, op, arg, id, code) ==
    LET acc == st.accounts
        msg == st.messages
    IN
    CASE op = "createAccount" ->
           IF \E a \in acc : a.address = addressOf(arg)
           THEN Answer(acc, msg, Thrown("mcp", "ACCOUNT_EXISTS"))
           ELSE Answer(acc \cup {EmailAccount(id, arg)}, msg, Account(id))
      [] op = "getAccountById" ->
           Answer(acc, msg, IF \E a \in acc : a.id = arg THEN Account(arg) ELSE Null)
      [] op = "deleteAccount" ->
           IF \A a \in acc : a.id # arg
           THEN Answer(acc, {m \in msg : m.account_id # arg}, Thrown("mcp", "NOT_FOUND"))
           ELSE Answer({a \in acc : a.id # arg}, {m \in msg : m.account_id # arg}, Void)
      [] op = "createMessage" ->
           IF \A a \in acc : a.id # arg
           THEN Answer(acc, msg, Thrown("mcp", code))
           ELSE Answer(acc, msg \cup {EmailMessage(id, arg, TRUE)}, Message(id, TRUE))
      [] op = "getMessageById" ->
           IF \A m \in msg : m.id # arg THEN Answer(acc, msg, Null)
           ELSE Answer(acc,
                       {IF m.id = arg THEN [m EXCEPT !.seen = TRUE] ELSE m : m \in msg},
                       Message(arg, TRUE))
      [] op = "getInbox" ->
           Answer(acc, msg, Inbox(newestFirst({m \in msg : m.account_id = arg})))
      [] OTHER ->
           IF \A m \in msg : m.id # arg
           THEN Answer(acc, msg, Thrown("mcp", "NOT_FOUND"))
           ELSE Answer(acc, {m \in msg : m.id # arg}, Void)

\* one operation is applied to an InMemoryEmailStore (accounts, messages)
\* and to a D1DatabaseClient (mirror); crypto.randomUUID() gives both the
\* same id; slot 0 keeps what the in-memory store answered
applyToBoth(op, arg) ==
    LET id == nextId + 1
        creates == op \in {"createAccount", "createMessage"}
        m == InMemoryEmailStore([accounts |-> accounts, messages |-> messages],
                                op, arg, id)
    IN  /\ creates => nextId < MaxIds
        /\ accounts' = m.accounts
        /\ messages' = m.messages
        /\ \E code \in ConstraintErrorCodes :
              mirror' = D1DatabaseClient(mirror, op, arg, id, code)
        /\ nextId' = IF creates THEN id ELSE nextId
        /\ calls' = [calls EXCEPT ![0].op = op, ![0].delivered = m.delivered]
        /\ UNCHANGED <<harness, pkg, phase, probe, transportBound, exitCode,
                       exitReason, shutdownSig, shutdownCount>>

\* the methods of EmailStore the comparison calls
StoreOps == {"createAccount", "getAccountById", "deleteAccount", "createMessage",
             "getMessageById", "getInbox", "deleteMessage"}

\* the arguments given to a method
ArgsOf(op) == IF op = "createAccount" THEN Usernames ELSE Ids

InitPair ==
    /\ harness = "pair"
    /\ pkg = "tempmail"
    /\ phase = "none"
    /\ probe = "none"
    /\ transportBound = FALSE
    /\ exitCode = "none"
    /\ exitReason = "none"
    /\ shutdownSig = "none"
    /\ shutdownCount = 0
    /\ accounts = {}
    /\ messages = {}
    /\ nextId = 0
    /\ mirror = NoMirror
    /\ calls = [c \in CallIds |-> FreeCall]

NextPair == \E op \in StoreOps : \E arg \in ArgsOf(op) : applyToBoth(op, arg)

SpecPair == InitPair /\ [][NextPair]_vars

\* ------------------------------------------------------------- properties
\* the openers the read-only policy names, read off the statement itself:
\* the first lexeme after leading whitespace, case ignored
OpenerWords == {"select", "show", "explain", "describe", "desc"}

BeginsWithReadOpener(q) ==
    \E i \in 1..Len(q) :
       /\ \A j \in 1..(i - 1) : q[j] = "ws"
       /\ \/ LowerWord(q[i]) \in OpenerWords
          \/ /\ LowerWord(q[i]) = "with"
             /\ \E k \in (i + 1)..Len(q), m \in (i + 2)..Len(q) :
                  /\ k < m /\ LowerWord(q[k]) = "as" /\ q[m] = "("
                  /\ \A n \in (k + 1)..(m - 1) : q[n] = "ws"

\* C1: in both SQL adapters a statement that does not begin with select,
\* show, explain, describe/desc or with ... as ( is rejected by executeQuery
\* with WRITE_OPERATION_NOT_ALLOWED, before a connection is opened and
\* before anything is sent to the backend
C1_RejectedBeforeConnect ==
    \A c \in CallIds :
       (calls[c].op = "executeQuery" /\ calls[c].pc # "called"
          /\ ~BeginsWithReadOpener(calls[c].stmt))
       => /\ calls[c].pc = "done"
          /\ calls[c].result = Thrown("mcp", "WRITE_OPERATION_NOT_ALLOWED")
          /\ calls[c].conn = "none" /\ calls[c].ends = 0
          /\ calls[c].sent = <<>>

C1_Witness ==
    /\ calls[1].stmt = <<"delete", "ws", "x">>
    /\ calls[1].pc = "done"
    /\ calls[1].result.code = "WRITE_OPERATION_NOT_ALLOWED"

\* a statement performs a write when a write keyword stands where a
\* statement starts: first, after a ";", or opening the body of a
\* common table expression
WriteWords == {"delete"}

RECURSIVE PrevNonWs(_, _)
PrevNonWs(q, i) == IF i = 0 \/ q[i] # "ws" THEN i ELSE PrevNonWs(q, i - 1)

\* position i of q is not inside a quoted literal
OutsideLiteral(q, i) == Cardinality({j \in 1..(i - 1) : q[j] = "'"}) % 2 = 0

PerformsWrite(q) ==
    \E i \in 1..Len(q) :
       /\ LowerWord(q[i]) \in WriteWords
       /\ OutsideLiteral(q, i)
       /\ LET k == PrevNonWs(q, i - 1) IN
          \/ k = 0
          \/ q[k] = ";"
          \/ q[k] = "(" /\ PrevNonWs(q, k - 1) > 0
                        /\ LowerWord(q[PrevNonWs(q, k - 1)]) = "as"

\* C2: no statement text that performs a write is ever passed to the
\* driver's query / execute call
C2_NoWriteReachesDriver ==
    \A c \in CallIds :
       \A i \in 1..Len(calls[c].sent) : ~PerformsWrite(calls[c].sent[i])

\* the calls made on a per-call SQL adapter
IsSqlCall(call) ==
    pkg \in SqlAdapters /\ call.op \in {"executeQuery", "connect", "testConnection"}

\* C3: whatever the outcome of a call on a per-call SQL adapter (success,
\* backend fault, thrown exception), the end method of the connection the
\* call opened has been invoked exactly once when the call settles, and is
\* never invoked more than once
C3_EndInvokedExactlyOnce ==
    \A c \in CallIds :
       IsSqlCall(calls[c]) =>
          /\ calls[c].ends <= 1
          /\ (calls[c].pc = "done"
                /\ calls[c].outcome \in {"ok", "backendFault", "endFault"})
             => (calls[c].ends = 1 /\ calls[c].conn = "closed")
          /\ (calls[c].pc = "done" /\ calls[c].conn # "none")
             => calls[c].ends = 1

C3_Witness ==
    \E c \in ToolSlots :
       /\ IsSqlCall(calls[c]) /\ calls[c].op = "executeQuery"
       /\ calls[c].pc = "done" /\ calls[c].outcome = "backendFault"
       /\ calls[c].ends = 1

IsToolCall(call) == call.tool \notin {"none", "adapter"}

\* C4: for every tool of every package a failure of the handler's backend
\* call never leaves the handler as a thrown exception: the settled call is
\* a result envelope
C4_BackendFailureGivesEnvelope ==
    \A c \in ToolSlots :
       (IsToolCall(calls[c]) /\ calls[c].pc = "done"
          /\ calls[c].outcome \in {"backendFault", "connectFault", "unexpected", "endFault"})
       => calls[c].result.kind = "envelope"

\* C5: raw input that fails schema validation never reaches the tool's
\* logic, and the caller receives an envelope whose JSON text has an error
\* field; nothing is thrown
C5_InvalidInputGivesErrorEnvelope ==
    \A c \in ToolSlots :
       (IsToolCall(calls[c]) /\ calls[c].pc = "done" /\ ~calls[c].valid)
       => /\ ~calls[c].invoked
          /\ calls[c].result.kind = "envelope"
          /\ calls[c].result.json /\ "error" \in calls[c].result.keys

\* C6: for every tool and backend fault the error text of the resulting
\* envelope carries the backend's tag and the identifying field of the
\* request
C6_FaultCarriesTagAndRequestField ==
    \A c \in ToolSlots :
       (IsToolCall(calls[c]) /\ calls[c].pc = "done"
          /\ calls[c].outcome = "backendFault"
          /\ calls[c].result.kind = "envelope")
       => /\ calls[c].result.tag = BackendTag(pkg)
          /\ LET f == ToolOf(pkg, calls[c].tool).idField IN
             f # "none" => f \in calls[c].result.echo

\* C7: the text of the envelope returned for a tool call is JSON that has an
\* error key when the call failed and none when it succeeded
C7_ErrorKeyIffFailed ==
    \A c \in ToolSlots :
       (IsToolCall(calls[c]) /\ calls[c].pc = "done"
          /\ calls[c].result.kind = "envelope")
       => /\ calls[c].result.json
          /\ ("error" \in calls[c].result.keys) <=> (calls[c].outcome # "ok")

C9_ProbeFailureExits ==
    exitReason = "probeFailed"
    => /\ exitCode = "1"
       /\ ~transportBound
       /\ probe = "failed"
       /\ \A c \in CallIds : calls[c].conn \in {"none", "closed"}

C9_Witness ==
    /\ exitReason = "probeFailed" /\ exitCode = "1"
    /\ calls[0].op = "testConnection" /\ calls[0].conn = "closed"
    /\ calls[0].outcome = "backendFault"

\* C10: when the process exits on a signal, an uncaught exception or an
\* unhandled rejection, every backend connection open at that moment has
\* been ended
C10_ShutdownEndsConnections ==
    exitReason \in Signals => \A c \in CallIds : calls[c].conn # "open"

TerminateSignals == {"SIGINT", "SIGTERM"}

\* C11: when a terminate signal starts the shutdown path and a second one
\* arrives while the first handler is still awaiting cleanup, nothing is
\* thrown (the exit stays that of the signal handler) and the process exits
\* with code 0
C11_DoubleSignalExitsZero ==
    /\ (shutdownSig \in TerminateSignals /\ shutdownCount >= 2) => exitCode = "none"
    /\ (exitCode # "none" /\ exitReason \in TerminateSignals /\ shutdownCount >= 2)
       => exitCode = "0"
    /\ (exitCode # "none" /\ shutdownCount >= 2) => exitReason \in Signals

C11_Witness ==
    /\ pkg \in SqlAdapters /\ shutdownCount = 2
    /\ exitReason = "SIGTERM" /\ exitCode = "0"

StartupFailures == {"badConfig", "probeFailed", "bindFailed"}

RuntimeFaults == {"uncaughtException", "unhandledRejection"}

\* C12: the exit code is 0 when the process ends through the handler of a
\* termination signal, and non-zero when it ends because start-up failed
\* (bad configuration, failed probe) or on an uncaught exception or
\* unhandled rejection
C12_ExitCodes ==
    exitCode # "none"
    => /\ exitReason \in TerminateSignals \cup StartupFailures \cup RuntimeFaults
       /\ exitReason \in TerminateSignals => exitCode = "0"
       /\ exitReason \in StartupFailures \cup RuntimeFaults => exitCode = "1"

C12_Witness ==
    \/ exitReason = "badConfig" /\ exitCode = "1" /\ phase = "exited"
    \/ exitReason = "unhandledRejection" /\ exitCode = "1" /\ transportBound

\* C13: getSpansMetrics fails as a whole, with the one error
\* SPANS_METRICS_FAILED, as soon as any of its three sub-queries has failed,
\* and returns a result only when all three have succeeded
C13_SpansMetricsAllOrNothing ==
    \A c \in ToolSlots :
       calls[c].op = "getSpansMetrics" =>
          /\ (\E i \in DOMAIN queries : calls[c].subs[i] = "failed")
             => /\ calls[c].pc = "done"
                /\ calls[c].result = Thrown("mcp", "SPANS_METRICS_FAILED")
          /\ (calls[c].pc = "done" /\ calls[c].result.kind # "thrown")
             => \A i \in DOMAIN queries : calls[c].subs[i] = "ok"
          /\ (\A i \in DOMAIN queries : calls[c].subs[i] = "ok")
             => (calls[c].pc = "done" /\ calls[c].result.kind = "envelope")

C13_Witness ==
    \E c \in ToolSlots :
       /\ calls[c].op = "getSpansMetrics" /\ calls[c].pc = "done"
       /\ calls[c].subs = <<"ok", "failed", "failed">>
       /\ calls[c].result.code = "SPANS_METRICS_FAILED"

\* the codes an adapter gives a fault the backend itself reported
SemanticCodes(p, name) ==
    IF p \in SqlAdapters THEN QueryErrorCodes(p)
    ELSE {clientError(p, name, cause).code : cause \in Causes \ {"unreachable"}}

ConnectionErrorCodes == {"CONNECTION_ERROR", "NETWORK_ERROR"}

\* C14: when an adapter cannot reach its backend at all, the error it
\* delivers to its caller carries a generic connection-error code, which is
\* none of the codes the adapter gives a backend-semantic fault
C14_ConnectionErrorDistinguishable ==
    \A c \in CallIds :
       (calls[c].pc = "done" /\ calls[c].outcome = "connectFault"
          /\ calls[c].delivered.kind = "thrown")
       => /\ calls[c].delivered.code \in ConnectionErrorCodes
          /\ calls[c].delivered.code \notin SemanticCodes(pkg, calls[c].tool)

\* C15: when several calls on a per-call SQL adapter are in flight, each
\* call opens one connection, its variable refers to that connection only,
\* only its own statement is sent on it, and no other call queries or ends it
C15_OwnConnectionPerCall ==
    \A c \in CallIds :
       IsSqlCall(calls[c]) =>
          /\ calls[c].client \subseteq {c}
          /\ calls[c].users \subseteq {c}
          /\ calls[c].pc \in {"querying", "ending"} => calls[c].client = {c}
          /\ calls[c].conn # "none" => calls[c].client = {c}
          /\ Len(calls[c].sent) <= 1
          /\ \A i \in 1..Len(calls[c].sent) : calls[c].sent[i] = calls[c].stmt

C15_Witness ==
    \E c \in CallIds, d \in CallIds :
       /\ c # d
       /\ calls[c].op = "executeQuery" /\ calls[d].op = "executeQuery"
       /\ calls[c].pc = "done" /\ calls[c].conn = "closed" /\ calls[c].users = {c}
       /\ calls[d].pc = "querying" /\ calls[d].conn = "open"

\* C16: for a read_query call whose adapter returned N rows after T
\* milliseconds, the JSON text of the envelope has rowCount N,
\* executionTime "<T>ms" and a data array of exactly those N rows
\* (2 rows in 15 ms: rowCount 2, "15ms", 2 elements)
C16_ReadQueryPayload ==
    \A c \in ToolSlots :
       (calls[c].tool = "read_query" /\ calls[c].pc = "done"
          /\ calls[c].delivered.kind = "rows")
       => LET rows == calls[c].delivered.data
              text == calls[c].result.text
          IN  /\ calls[c].result.kind = "envelope"
              /\ text.rowCount = Len(rows)
              /\ text.data = rows
              /\ calls[c].delivered.executionTime = 15 => text.executionTime = "15ms"
              /\ calls[c].delivered.executionTime = 0 => text.executionTime = "0ms"

C16_Witness ==
    \E c \in ToolSlots :
       /\ calls[c].tool = "read_query" /\ calls[c].pc = "done"
       /\ Len(calls[c].delivered.data) = 2 /\ calls[c].delivered.executionTime = 15
       /\ calls[c].result.text.rowCount = 2
       /\ calls[c].result.text.executionTime = "15ms"
       /\ calls[c].result.text.data = <<"John", "Jane">>

\* C17: a describe_table call whose adapter throws a backend fault (42P01
\* for a table that does not exist) is answered with an envelope whose JSON
\* has an error that carries the backend tag and a tableName equal to the
\* requested table
C17_DescribeTableFault ==
    \A c \in ToolSlots :
       (calls[c].tool = "describe_table" /\ calls[c].pc = "done"
          /\ calls[c].outcome = "backendFault")
       => /\ calls[c].result.kind = "envelope" /\ calls[c].result.json
          /\ "error" \in calls[c].result.keys
          /\ calls[c].result.tag = BackendTag(pkg)
          /\ "tableName" \in calls[c].result.keys
          /\ calls[c].result.text.tableName = calls[c].params.tableName
          /\ calls[c].result.text.tableName \in TableNames

C17_Witness ==
    \E c \in ToolSlots :
       /\ pkg = "postgresql" /\ calls[c].tool = "describe_table"
       /\ calls[c].pc = "done" /\ calls[c].delivered.code = "42P01"
       /\ calls[c].result.tag = "PostgreSQL Error:"
       /\ calls[c].result.text.tableName = "non_existent"

\* the call failed because a query of the D1 client itself failed
D1QueryFailed(call) == call.delivered.code \in {"D1_API_ERROR", "none"}

C20_DeleteRemovesAccountAndMessages ==
    [][\A c \in CallIds :
         (calls[c].pc # "done" /\ calls'[c].pc = "done"
            /\ calls'[c].tool = "delete_email_account" /\ calls'[c].outcome = "ok")
         => /\ \A a \in accounts' : a.id # calls'[c].params.accountId
            /\ \A m \in messages' : m.account_id # calls'[c].params.accountId]_vars

C20_Witness ==
    \E c \in CallIds :
       /\ harness = "d1" /\ calls[c].tool = "delete_email_account"
       /\ calls[c].pc = "done" /\ calls[c].outcome = "ok"
       /\ nextId >= 2 /\ accounts = {} /\ messages = {}

\* C21: a read of a message the store holds returns the message with seen
\* = true, and the message, as long as the store holds it, is marked seen
C21_ReadMarksSeen ==
    \A c \in CallIds :
       (calls[c].op = "getMessageById" /\ calls[c].pc = "done"
          /\ calls[c].delivered.kind = "message")
       => /\ calls[c].delivered.seen
          /\ \A m \in messages : m.id = calls[c].delivered.id => m.seen

C21_Witness ==
    \E c \in CallIds :
       /\ harness = "d1" /\ calls[c].op = "getMessageById" /\ calls[c].pc = "done"
       /\ calls[c].delivered.kind = "message"
       /\ \E m \in messages : m.id = calls[c].delivered.id /\ m.seen

\* C22 as stated: in both SQL adapters every statement that begins with
\* select, show, explain, describe, desc or with <ident> as ( passes the
\* read-only check
C22_SameAllowList ==
    \A c \in CallIds :
       (calls[c].op = "executeQuery" /\ calls[c].pc # "called"
          /\ BeginsWithReadOpener(calls[c].stmt))
       => calls[c].result.code # "WRITE_OPERATION_NOT_ALLOWED"

\* the openers each adapter documents, read off the statement itself: the
\* first word after leading whitespace, case ignored, with whitespace and
\* then more of the statement after it
DocumentedOpeners(adapter) ==
    {"select", "show", "explain"}
       \cup (IF adapter = "mysql" THEN {"describe", "desc"} ELSE {})

BeginsWithDocumentedOpener(adapter, q) ==
    \E i \in 1..Len(q) :
       /\ \A j \in 1..(i - 1) : q[j] = "ws"
       /\ \/ /\ LowerWord(q[i]) \in DocumentedOpeners(adapter)
             /\ i < Len(q) /\ q[i + 1] = "ws"
             /\ \E n \in (i + 2)..Len(q) : q[n] # "ws"
          \/ /\ adapter = "postgresql" /\ LowerWord(q[i]) = "with"
             /\ \E w \in (i + 2)..Len(q), k \in (i + 4)..Len(q), m \in (i + 5)..Len(q) :
                  /\ w < k /\ k < m
                  /\ IsWord(q[w]) /\ LowerWord(q[k]) = "as" /\ q[m] = "("
                  /\ \A n \in ((i + 1)..(m - 1)) \ {w, k} : q[n] = "ws"
                  /\ w > i + 1 /\ k > w + 1

\* C22: each SQL adapter lets through every statement that begins with one
\* of its own openers followed by whitespace and more text (select, show, explain in
\* both, describe and desc in MySQL only, with <ident> as ( in PostgreSQL
\* only): the call is not rejected by the read-only check and, once its
\* connection is open, the statement is what is sent
C22_AllowListPerAdapter ==
    \A c \in CallIds :
       (calls[c].op = "executeQuery" /\ calls[c].pc # "called"
          /\ BeginsWithDocumentedOpener(pkg, calls[c].stmt))
       => /\ calls[c].result.code # "WRITE_OPERATION_NOT_ALLOWED"
          /\ calls[c].pc # "connecting" => calls[c].outcome = "connectFault"
                                            \/ calls[c].sent = <<calls[c].stmt>>

C22_Witness ==
    /\ pkg = "mysql"
    /\ calls[1].stmt = <<"describe", "ws", "x">>
    /\ calls[1].pc = "done" /\ calls[1].outcome = "ok"
    /\ calls[1].sent = <<calls[1].stmt>>

\* C23 as stated: every server has performed exactly one connectivity probe
\* when its transport is bound, and never performs another
C23_ExactlyOneProbe ==
    /\ calls[0].probes <= 1
    /\ transportBound => calls[0].probes = 1

\* the probes start() makes: db.connect() and db.testConnection() open a
\* connection each in the SQL servers, client.testConnection() makes one API
\* call in the Datadog and AWS servers, the others make none
StartupProbes(p) ==
    IF p \in SqlAdapters THEN 2 ELSE IF p \in ProbedServers THEN 1 ELSE 0

\* C23: a server whose transport is bound has made exactly the probes of
\* its start() (two connections in the SQL servers, one API call in the
\* Datadog and AWS servers, none in the NPM and TempMail servers), and at
\* no time, before or after readiness, has it made more: there is no
\* health check, retry or reconnect
C23_ProbesAtStartupOnly ==
    /\ calls[0].probes <= StartupProbes(pkg)
    /\ transportBound => calls[0].probes = StartupProbes(pkg)

C23_Witness ==
    /\ pkg \in SqlAdapters /\ phase = "ready" /\ calls[0].probes = 2
    /\ \E c \in ToolSlots : calls[c].pc = "done" /\ calls[c].outcome = "connectFault"

\* C24: a tool method that fails with a value other than its package's own
\* error class answers with an envelope whose error message begins with
\* "Unexpected error:"
C24_UnexpectedErrorTag ==
    \A c \in ToolSlots :
       (IsToolCall(calls[c]) /\ calls[c].pc = "done" /\ calls[c].invoked
          /\ calls[c].delivered.kind = "thrown" /\ calls[c].delivered.cls = "raw")
       => /\ calls[c].result.kind = "envelope"
          /\ calls[c].result.json /\ "error" \in calls[c].result.keys
          /\ calls[c].result.tag = "Unexpected error:"

\* C25 as stated: a tool call whose backend has stopped answering, in any of
\* its I/O steps, is never ended
C25_HungCallNeverEnds ==
    \A c \in ToolSlots : calls[c].silent => calls[c].pc # "done"

\* C25: a tool call whose backend has stopped answering is ended only by the
\* connection timer of the SQL drivers, with CONNECTION_ERROR and before
\* anything was sent; once the connection is open (the statement sent, or
\* the connection being ended), and in every call of the other packages, it
\* stays in flight
C25_OnlyConnectDeadline ==
    \A c \in ToolSlots :
       (calls[c].silent /\ calls[c].pc = "done")
       => /\ pkg \in SqlAdapters
          /\ calls[c].delivered = Thrown("mcp", "CONNECTION_ERROR")
          /\ calls[c].sent = <<>> /\ calls[c].conn = "none"

C25_Witness ==
    \E c \in ToolSlots :
       /\ calls[c].silent /\ calls[c].pc = "querying" /\ phase = "ready"
       /\ calls[c].sent # <<>>

\* a further statement follows a ";" that is outside every quoted literal
HasSecondStatement(q) ==
    \E i \in 1..Len(q), j \in 1..Len(q) :
       /\ i < j /\ q[i] = ";" /\ OutsideLiteral(q, i)
       /\ IsWord(q[j]) /\ \A k \in 1..j : q[k] # "--"

\* C26: whatever tableName or schemaName describe_table and list_tables
\* are given, the text they pass to the driver is a single statement that
\* performs no write
C26_MetadataSelectOnly ==
    \A c \in ToolSlots :
       calls[c].tool \in {"describe_table", "list_tables"}
       => \A i \in 1..Len(calls[c].sent) :
             /\ ~PerformsWrite(calls[c].sent[i])
             /\ ~HasSecondStatement(calls[c].sent[i])

\* C27: no two accounts of the email store have the same address, also
\* while two create_email_account calls for one username are in flight
C27_UniqueAddress ==
    \A a \in accounts, b \in accounts : a.address = b.address => a = b

C27_Witness ==
    \E c \in CallIds, d \in CallIds :
       /\ harness = "d1" /\ c # d
       /\ calls[c].tool = "create_email_account" /\ calls[d].tool = "create_email_account"
       /\ calls[c].params.username = calls[d].params.username
       /\ calls[c].pc = "done" /\ calls[c].outcome = "ok"
       /\ calls[d].pc = "done" /\ calls[d].prior = {}
       /\ calls[d].delivered.code \in ConstraintErrorCodes
       /\ Cardinality(accounts) = 1

C29_StoresEquivalent == calls[0].delivered = mirror.delivered

\* C30: what executeQuery reports is what its statement settled with (the
\* rows, or the classified query error), also when ending the connection
\* in the finally block fails
C30_OutcomeIsTheQuerys ==
    [][\A c \in CallIds :
         (calls[c].op = "executeQuery" /\ calls[c].pc = "ending"
            /\ calls'[c].pc = "done")
         => calls'[c].delivered = calls[c].pending]_vars

====
